---- MODULE Spec2Model ----
(***************************************************************************)
(* The shortest augmenting path solver of the rectangular linear sum       *)
(* assignment problem (rectangular_lsap.cpp): the cost view matrix2d, the  *)
(* search augmenting_path, the driver solve and the two C entry points.    *)
(*                                                                         *)
(* Arrays are functions over 0..n-1, as in the source.  A double is a pair *)
(* <<kind, n>>: <<"fin", n>> an integer value, <<"inf", 1>> and            *)
(* <<"inf", -1>> the infinities, <<"nan", 0>> a NaN; the arithmetic and    *)
(* comparisons on them are IEEE's.  An element of an integer kind is       *)
(* stored as <<"fin", n>> with n in the range of the kind.                 *)
(***************************************************************************)
EXTENDS Integers, Sequences, FiniteSets, TLC

(* ------------------------------ bounds --------------------------------- *)

\* Spec: the matrices have at most MaxDim rows and columns and finite
\* entries in 0..MaxVal.
MaxDim == 3
MaxVal == 1
\* SpecConst: constant n x n matrices, n <= ConstDim, entry in -ConstVal..ConstVal.
ConstDim == 4
ConstVal == 2
\* SpecSub and SpecChecks: the matrix is at most SubDim x SubDim with finite
\* entries in 0..SubVal, a selector is at most SubLen long.
SubDim == 2
SubVal == 1
SubLen == 2

(* ------------------------------ doubles -------------------------------- *)

Fin(n) == <<"fin", n>>
INFINITY == <<"inf", 1>>
NegInfinity == <<"inf", -1>>
NaN == <<"nan", 0>>

IsFin(x) == x[1] = "fin"
IsNaN(x) == x[1] = "nan"

\* -x
DNeg(x) == IF IsFin(x) THEN Fin(-x[2]) ELSE IF IsNaN(x) THEN NaN ELSE <<"inf", -x[2]>>

\* x + y
DAdd(x, y) ==
    IF IsNaN(x) \/ IsNaN(y) THEN NaN
    ELSE IF IsFin(x) /\ IsFin(y) THEN Fin(x[2] + y[2])
    ELSE IF IsFin(x) THEN y
    ELSE IF IsFin(y) THEN x
    ELSE IF x = y THEN x ELSE NaN

\* x - y
DSub(x, y) == DAdd(x, DNeg(y))

\* x < y
DLt(x, y) ==
    /\ ~IsNaN(x)
    /\ ~IsNaN(y)
    /\ IF IsFin(x) /\ IsFin(y) THEN x[2] < y[2]
       ELSE IF IsFin(x) THEN y = INFINITY
       ELSE IF IsFin(y) THEN x = NegInfinity
       ELSE x = NegInfinity /\ y = INFINITY

\* x == y
DEq(x, y) == ~IsNaN(x) /\ ~IsNaN(y) /\ x = y

(* --------------------------- element kinds ----------------------------- *)

CHAR_BIT == 8
SHORT_BIT == 16

RECURSIVE Pow2(_)
Pow2(w) == IF w = 0 THEN 1 ELSE 2 * Pow2(w - 1)

\* The value an unsigned kind of w bits keeps of the int n.
WrapUnsigned(n, w) == n % Pow2(w)
\* The value a signed kind of w bits keeps of the int n (two's complement).
WrapSigned(n, w) == ((n + Pow2(w - 1)) % Pow2(w)) - Pow2(w - 1)

\* The dtype tags of the dispatch that the model instantiates.  The 32 and 64
\* bit kinds follow the same pattern with a modulus beyond TLC's integers.
\* char (LSAP_BYTE) is taken as signed; where it is unsigned the kind behaves
\* as LSAP_UBYTE.
IntKinds == {"LSAP_BOOL", "LSAP_BYTE", "LSAP_UBYTE", "LSAP_SHORT", "LSAP_USHORT"}
SupportedKinds == IntKinds \cup {"LSAP_DOUBLE"}
UnknownKind == "LSAP_UNKNOWN"

\* The values of an element kind that the inputs are drawn from: its extremes
\* and the values next to zero.
KindValues(t) ==
    CASE t = "LSAP_BOOL" -> {0, 1}
      [] t = "LSAP_BYTE" -> {-Pow2(CHAR_BIT - 1), -1, 0, 1, Pow2(CHAR_BIT - 1) - 1}
      [] t = "LSAP_UBYTE" -> {0, 1, 2, Pow2(CHAR_BIT) - 1}
      [] t = "LSAP_SHORT" -> {-Pow2(SHORT_BIT - 1), -1, 0, 1, Pow2(SHORT_BIT - 1) - 1}
      [] t = "LSAP_USHORT" -> {0, 1, 2, Pow2(SHORT_BIT) - 1}

\* r = -r on an element r of kind T: the operand is promoted to int, negated,
\* and the result converted back to T.
NegateT(t, r) ==
    CASE t = "LSAP_DOUBLE" -> DNeg(r)
      [] t = "LSAP_BOOL" -> Fin(IF -r[2] # 0 THEN 1 ELSE 0)
      [] t = "LSAP_BYTE" -> Fin(WrapSigned(-r[2], CHAR_BIT))
      [] t = "LSAP_UBYTE" -> Fin(WrapUnsigned(-r[2], CHAR_BIT))
      [] t = "LSAP_SHORT" -> Fin(WrapSigned(-r[2], SHORT_BIT))
      [] t = "LSAP_USHORT" -> Fin(WrapUnsigned(-r[2], SHORT_BIT))

(* ------------------------------- state --------------------------------- *)

VARIABLES
    pc,             \* "call", "scan", "select", "update", "output", "done"
    \* the arguments of the call
    dtype, nr_arg, nc_arg, cost, maximize, subrows, n_subrows, subcols, n_subcols,
    \* what the call gives back: the status and the pairs written to a and b
    status, a, b,
    \* solve's working shape and the cost view
    nr, nc, m_transpose, m_negative, m_subrows, m_subcols,
    \* solve's vectors
    u, v, shortestPathCosts, path, col4row, row4col, SR, SC, remaining,
    \* solve's and augmenting_path's scalars
    curRow, minVal, num_remaining, i, sink, index, lowest,
    \* the result of an earlier call, kept by the caller (SpecSub)
    prev

args == <<dtype, nr_arg, nc_arg, cost, maximize, subrows, n_subrows, subcols, n_subcols>>
outs == <<status, a, b>>
view == <<nr, nc, m_transpose, m_negative, m_subrows, m_subcols>>
duals == <<u, v>>
match == <<col4row, row4col>>
search == <<shortestPathCosts, path, SR, SC, remaining, minVal, num_remaining, i, sink,
            index, lowest>>
vars == <<pc, args, outs, view, duals, match, search, curRow, prev>>

nullptr == [k \in {} |-> 0]

RETURN_OK == "0"
RECTANGULAR_LSAP_INFEASIBLE == "RECTANGULAR_LSAP_INFEASIBLE"
RECTANGULAR_LSAP_INVALID == "RECTANGULAR_LSAP_INVALID"
RECTANGULAR_LSAP_SUBSCRIPT_INVALID == "RECTANGULAR_LSAP_SUBSCRIPT_INVALID"
RECTANGULAR_LSAP_DTYPE_INVALID == "RECTANGULAR_LSAP_DTYPE_INVALID"
NoStatus == "running"

\* An array of n elements, all x.
Filled(n, x) == [k \in 0..(n - 1) |-> x]

(* ----------------------------- cost view ------------------------------- *)

\* matrix2d::get(x, y)
get(x, y) ==
    LET i1 == IF m_transpose THEN y ELSE x
        j1 == IF m_transpose THEN x ELSE y
        i2 == IF m_subrows # nullptr THEN m_subrows[i1] ELSE i1
        j2 == IF m_subcols # nullptr THEN m_subcols[j1] ELSE j1
        r == cost[i2 * nc_arg + j2]
    IN  IF m_negative THEN NegateT(dtype, r) ELSE r

(* ------------------------- augmenting_path ----------------------------- *)

\* InitRemaining filled in forward order: remaining[it] = it.
InitRemaining_Forward(n) == [it \in 0..(n - 1) |-> it]

\* remaining[it] = nc - it - 1
InitRemaining(n) == [it \in 0..(n - 1) |-> n - it - 1]

\* The start of augmenting_path(nc, ..., i = row, ...): the scratch is reset.
BeginPath(row, n, rows) ==
    /\ minVal' = Fin(0)
    /\ num_remaining' = n
    /\ remaining' = InitRemaining(n)
    /\ SR' = Filled(rows, FALSE)
    /\ SC' = Filled(n, FALSE)
    /\ shortestPathCosts' = Filled(n, INFINITY)
    /\ sink' = -1
    /\ i' = row
    /\ index' = -1
    /\ lowest' = INFINITY
    /\ pc' = "scan"

\* ReducedCost without the column's dual: minVal + cost.get(i, j) - u[i].
ReducedCost_NoColumnDual(jj) == DSub(DAdd(minVal, get(i, jj)), u[i])

\* r = minVal + cost.get(i, j) - u[i] - v[j]
ReducedCost(jj) == DSub(DSub(DAdd(minVal, get(i, jj)), u[i]), v[jj])

Scanned == {remaining[it] : it \in 0..(num_remaining - 1)}

\* Whether the scan lowers shortestPathCosts[jj].
Lowered(jj) == jj \in Scanned /\ DLt(ReducedCost(jj), shortestPathCosts[jj])

\* Better without the preference for an unmatched column.
Better_Strict(spc, jj, low) == DLt(spc[jj], low)

\* The test that makes position it of remaining the selected one so far.
Better(spc, jj, low) == DLt(spc[jj], low) \/ (DEq(spc[jj], low) /\ row4col[jj] = -1)

\* lowest and index after the scan of remaining[it .. num_remaining-1].
RECURSIVE ScanLowest(_, _, _, _)
ScanLowest(spc, it, low, idx) ==
    IF it >= num_remaining THEN [lowest |-> low, index |-> idx]
    ELSE IF Better(spc, remaining[it], low)
         THEN ScanLowest(spc, it + 1, spc[remaining[it]], it)
         ELSE ScanLowest(spc, it + 1, low, idx)

\* One pass of the while loop up to the end of its for loop.
Scan ==
    /\ pc = "scan"
    /\ SR' = [SR EXCEPT ![i] = TRUE]
    /\ shortestPathCosts' =
           [jj \in 0..(nc - 1) |->
               IF Lowered(jj) THEN ReducedCost(jj) ELSE shortestPathCosts[jj]]
    /\ path' = [jj \in 0..(nc - 1) |-> IF Lowered(jj) THEN i ELSE path[jj]]
    /\ LET res == ScanLowest(shortestPathCosts', 0, INFINITY, -1)
       IN  lowest' = res.lowest /\ index' = res.index
    /\ pc' = "select"
    /\ UNCHANGED <<args, outs, view, duals, match, SC, remaining, minVal, num_remaining,
                   i, sink, curRow, prev>>

\* The rest of the pass: the infeasibility test, the selected column, its
\* removal from remaining; then the loop test.  A return of -1 makes solve
\* return RECTANGULAR_LSAP_INFEASIBLE.
Select ==
    /\ pc = "select"
    /\ minVal' = lowest
    /\ IF DEq(lowest, INFINITY)
       THEN /\ status' = RECTANGULAR_LSAP_INFEASIBLE
            /\ pc' = "done"
            /\ UNCHANGED <<sink, i, SC, remaining, num_remaining>>
       ELSE LET jj == remaining[index] IN
            /\ sink' = IF row4col[jj] = -1 THEN jj ELSE sink
            /\ i' = IF row4col[jj] = -1 THEN i ELSE row4col[jj]
            /\ SC' = [SC EXCEPT ![jj] = TRUE]
            /\ num_remaining' = num_remaining - 1
            /\ remaining' = [remaining EXCEPT ![index] = remaining[num_remaining - 1]]
            /\ pc' = IF sink' = -1 THEN "scan" ELSE "update"
            /\ UNCHANGED status
    /\ UNCHANGED <<args, a, b, view, duals, match, shortestPathCosts, path, SR, index,
                   lowest, curRow, prev>>

(* ------------------------------- solve --------------------------------- *)

\* InvalidEntry that rejects an infinity of either sign.
InvalidEntry_AnyInfinity(x, maxi) == ~IsFin(x)

\* cost[i] != cost[i] || (cost[i] == -INFINITY && !maximize) || (cost[i] == INFINITY && maximize)
InvalidEntry(x, maxi) ==
    \/ ~DEq(x, x)
    \/ (DEq(x, NegInfinity) /\ ~maxi)
    \/ (DEq(x, INFINITY) /\ maxi)

\* Whether the check of one selector fails.
BadSubscript(sub, n, lim) ==
    /\ n # 0
    /\ \/ n < 0
       \/ \E k \in 0..(n - 1) : sub[k] < 0 \/ sub[k] >= lim

\* EntryStatus with the selectors checked before the scan of the matrix.
EntryStatus_SubscriptsFirst ==
    IF dtype \notin SupportedKinds THEN RECTANGULAR_LSAP_DTYPE_INVALID
    ELSE IF nr_arg = 0 \/ nc_arg = 0 THEN RETURN_OK
    ELSE IF BadSubscript(subrows, n_subrows, nr_arg) THEN RECTANGULAR_LSAP_SUBSCRIPT_INVALID
    ELSE IF BadSubscript(subcols, n_subcols, nc_arg) THEN RECTANGULAR_LSAP_SUBSCRIPT_INVALID
    ELSE IF \E k \in 0..(nr_arg * nc_arg - 1) : InvalidEntry(cost[k], maximize)
         THEN RECTANGULAR_LSAP_INVALID
    ELSE NoStatus

\* The status the checks at the head of solve return, NoStatus if all pass.
EntryStatus ==
    IF dtype \notin SupportedKinds THEN RECTANGULAR_LSAP_DTYPE_INVALID
    ELSE IF nr_arg = 0 \/ nc_arg = 0 THEN RETURN_OK
    ELSE IF \E k \in 0..(nr_arg * nc_arg - 1) : InvalidEntry(cost[k], maximize)
         THEN RECTANGULAR_LSAP_INVALID
    ELSE IF BadSubscript(subrows, n_subrows, nr_arg) THEN RECTANGULAR_LSAP_SUBSCRIPT_INVALID
    ELSE IF BadSubscript(subcols, n_subcols, nc_arg) THEN RECTANGULAR_LSAP_SUBSCRIPT_INVALID
    ELSE NoStatus

\* bool subscript = (subrows != nullptr) || (subcols != nullptr)
subscript == m_subrows # nullptr \/ m_subcols # nullptr

\* The working shape after costmat.subscript: <<nr, nc>>.
SubscriptShape(hasSub) ==
    IF hasSub THEN <<n_subrows, n_subcols>> ELSE <<nr_arg, nc_arg>>

\* The call up to the first pass of the main loop: the dispatch on dtype, the
\* checks, the orientation of the view and the initial vectors.
Enter ==
    /\ pc = "call"
    /\ IF EntryStatus # NoStatus
       THEN /\ status' = EntryStatus
            /\ pc' = "done"
            /\ UNCHANGED <<view, duals, match, search, curRow>>
       ELSE LET sr == IF n_subrows = 0 THEN nullptr ELSE subrows
                sc == IF n_subcols = 0 THEN nullptr ELSE subcols
                shape == SubscriptShape(sr # nullptr \/ sc # nullptr)
                tr == shape[2] < shape[1]
                rows == IF tr THEN shape[2] ELSE shape[1]
                cols == IF tr THEN shape[1] ELSE shape[2]
            IN  /\ m_subrows' = sr
                /\ m_subcols' = sc
                /\ m_transpose' = tr
                /\ m_negative' = maximize
                /\ nr' = rows
                /\ nc' = cols
                /\ u' = Filled(rows, Fin(0))
                /\ v' = Filled(cols, Fin(0))
                /\ col4row' = Filled(rows, -1)
                /\ row4col' = Filled(cols, -1)
                /\ curRow' = 0
                /\ IF 0 < rows
                   THEN /\ BeginPath(0, cols, rows)
                        /\ path' = Filled(cols, -1)
                   ELSE /\ pc' = "output"
                        /\ path' = Filled(cols, -1)
                        /\ shortestPathCosts' = Filled(cols, Fin(0))
                        /\ SR' = Filled(rows, FALSE)
                        /\ SC' = Filled(cols, FALSE)
                        /\ remaining' = Filled(cols, 0)
                        /\ UNCHANGED <<minVal, num_remaining, i, sink, index, lowest>>
                /\ UNCHANGED status
    /\ UNCHANGED <<args, a, b, prev>>

\* u after the update of the dual variables.
UpdatedU ==
    [x \in 0..(nr - 1) |->
        IF x = curRow THEN DAdd(u[x], minVal)
        ELSE IF SR[x] THEN DAdd(u[x], DSub(minVal, shortestPathCosts[col4row[x]]))
        ELSE u[x]]

\* UpdatedV with the sign of the update reversed.
UpdatedV_Plus ==
    [y \in 0..(nc - 1) |->
        IF SC[y] THEN DAdd(v[y], DSub(minVal, shortestPathCosts[y])) ELSE v[y]]

\* v after the update of the dual variables.
UpdatedV ==
    [y \in 0..(nc - 1) |->
        IF SC[y] THEN DSub(v[y], DSub(minVal, shortestPathCosts[y])) ELSE v[y]]

\* The augmentation from column jj on: <<col4row, row4col>> at the break.
RECURSIVE Augment(_, _, _)
Augment(jj, c4r, r4c) ==
    LET x == path[jj]
        r4c2 == [r4c EXCEPT ![jj] = x]
        c4r2 == [c4r EXCEPT ![x] = jj]
    IN  IF x = curRow THEN <<c4r2, r4c2>> ELSE Augment(c4r[x], c4r2, r4c2)

\* The rest of a pass of the main loop once the sink is found, and the loop
\* test: the next search begins, or the loop ends.
Update ==
    /\ pc = "update"
    /\ u' = UpdatedU
    /\ v' = UpdatedV
    /\ LET m == Augment(sink, col4row, row4col)
       IN  col4row' = m[1] /\ row4col' = m[2]
    /\ curRow' = curRow + 1
    /\ IF curRow + 1 < nr
       THEN BeginPath(curRow + 1, nc, nr)
       ELSE /\ pc' = "output"
            /\ UNCHANGED <<shortestPathCosts, SR, SC, remaining, minVal, num_remaining,
                           i, sink, index, lowest>>
    /\ UNCHANGED <<args, outs, view, path, prev>>

\* IsArgSort that takes the indices in their order, unsorted.
IsArgSort_Unsorted(p, vec) == \A k \in DOMAIN p : p[k] = k

\* Whether p is an order argsort_iter(vec) may return: a permutation of the
\* indices with vec ascending along it (std::sort is not stable).
IsArgSort(p, vec) ==
    /\ \A x \in DOMAIN vec : \E k \in DOMAIN p : p[k] = x
    /\ \A k \in DOMAIN p : k + 1 \in DOMAIN p => ~(vec[p[k + 1]] < vec[p[k]])

argsort_iter(vec) == {p \in [DOMAIN vec -> DOMAIN vec] : IsArgSort(p, vec)}

\* a and b before the remap by the selectors, given argsort's order p.
RawA(p) == [k \in 0..(nr - 1) |-> IF m_transpose THEN col4row[p[k]] ELSE k]
RawB(p) == [k \in 0..(nr - 1) |-> IF m_transpose THEN p[k] ELSE col4row[k]]

\* Remap that leaves the indices as they are.
Remap_None(sub, vec) == vec

\* The remap of an output vector by its selector, if there is one.
Remap(sub, vec) ==
    [k \in 0..(nr - 1) |-> IF subscript /\ sub # nullptr THEN sub[vec[k]] ELSE vec[k]]

\* The output assembly and the return of 0.
Output ==
    /\ pc = "output"
    /\ \E p \in argsort_iter(col4row) :
          /\ a' = Remap(m_subrows, RawA(p))
          /\ b' = Remap(m_subcols, RawB(p))
    /\ status' = RETURN_OK
    /\ pc' = "done"
    /\ UNCHANGED <<args, view, duals, match, search, curRow, prev>>

(* ------------------------------ the calls ------------------------------ *)

\* The state before the call: nothing of solve exists yet.
Idle ==
    /\ pc = "call"
    /\ status = NoStatus
    /\ a = nullptr
    /\ b = nullptr
    /\ nr = 0
    /\ nc = 0
    /\ m_transpose = FALSE
    /\ m_negative = FALSE
    /\ m_subrows = nullptr
    /\ m_subcols = nullptr
    /\ u = nullptr
    /\ v = nullptr
    /\ shortestPathCosts = nullptr
    /\ path = nullptr
    /\ col4row = nullptr
    /\ row4col = nullptr
    /\ SR = nullptr
    /\ SC = nullptr
    /\ remaining = nullptr
    /\ curRow = 0
    /\ minVal = Fin(0)
    /\ num_remaining = 0
    /\ i = 0
    /\ sink = -1
    /\ index = -1
    /\ lowest = INFINITY
    /\ prev = nullptr

NoSubscripts ==
    /\ subrows = nullptr
    /\ n_subrows = 0
    /\ subcols = nullptr
    /\ n_subcols = 0

\* The entries of the matrices of Spec: the integers 0..MaxVal and the
\* infinity the direction admits.
CostValues(maxi) ==
    {Fin(n) : n \in 0..MaxVal} \cup {IF maxi THEN NegInfinity ELSE INFINITY}

\* solve_rectangular_linear_sum_assignment(nr, nc, input_cost, maximize, a, b)
Init ==
    /\ dtype = "LSAP_DOUBLE"
    /\ nr_arg \in 1..MaxDim
    /\ nc_arg \in 1..MaxDim
    /\ maximize \in BOOLEAN
    /\ cost \in [0..(nr_arg * nc_arg - 1) -> CostValues(maximize)]
    /\ NoSubscripts
    /\ Idle

Next == Enter \/ Scan \/ Select \/ Update \/ Output

Spec == Init /\ [][Next]_vars

\* The call on a constant n x n matrix.
InitConst ==
    /\ dtype = "LSAP_DOUBLE"
    /\ nr_arg \in 1..ConstDim
    /\ nc_arg = nr_arg
    /\ maximize \in BOOLEAN
    /\ \E k \in (-ConstVal)..ConstVal : cost = Filled(nr_arg * nc_arg, Fin(k))
    /\ NoSubscripts
    /\ Idle

SpecConst == InitConst /\ [][Next]_vars

\* The selectors of length n over the values vals.
Selectors(n, vals) == [0..(n - 1) -> vals]

\* The matrices of n cells that are zero but for at most one cell, which
\* holds a NaN or an infinity.
OneSpecial(n) ==
    {Filled(n, Fin(0))} \cup
    {[Filled(n, Fin(0)) EXCEPT ![k] = x] : k \in 0..(n - 1), x \in {NaN, INFINITY, NegInfinity}}

\* solve_rectangular_linear_sum_assignment_dtype on any arguments: shapes
\* with an empty axis, an unknown dtype, a NaN or an infinity in the matrix,
\* selectors of negative length or with indices out of bounds.
InitChecks ==
    /\ dtype \in {"LSAP_DOUBLE", "LSAP_BOOL", UnknownKind}
    /\ nr_arg \in 0..SubDim
    /\ nc_arg \in 0..SubDim
    /\ maximize \in BOOLEAN
    /\ cost \in IF dtype = "LSAP_DOUBLE" THEN OneSpecial(nr_arg * nc_arg)
                ELSE {Filled(nr_arg * nc_arg, Fin(0))}
    /\ n_subrows \in (-1)..SubLen
    /\ subrows \in Selectors(n_subrows, (-1)..nr_arg)
    /\ n_subcols \in (-1)..SubLen
    /\ subcols \in Selectors(n_subcols, (-1)..nc_arg)
    /\ Idle

SpecChecks == InitChecks /\ [][Next]_vars

\* The entries of the matrices of SpecSub: the integers 0..SubVal, the
\* infinity the direction admits, and NaN.
SubValues(maxi) ==
    {Fin(n) : n \in 0..SubVal} \cup {IF maxi THEN NegInfinity ELSE INFINITY, NaN}

\* solve_rectangular_linear_sum_assignment_dtype with selectors in bounds, of
\* any length from 0 (no selector on the axis) to SubLen, repetition included.
InitSub ==
    /\ dtype = "LSAP_DOUBLE"
    /\ nr_arg \in 1..SubDim
    /\ nc_arg \in 1..SubDim
    /\ maximize \in BOOLEAN
    /\ cost \in [0..(nr_arg * nc_arg - 1) -> SubValues(maximize)]
    /\ n_subrows \in 0..SubLen
    /\ subrows \in Selectors(n_subrows, 0..(nr_arg - 1))
    /\ n_subcols \in 0..SubLen
    /\ subcols \in Selectors(n_subcols, 0..(nc_arg - 1))
    /\ Idle

\* The caller's second call, after a call with two selectors has returned:
\* the matrix M[x][y] = C[P[x]][Q[y]] is built and solved without selectors.
\* prev keeps the first call's arguments and results.
Materialize ==
    /\ pc = "done"
    /\ prev = nullptr
    /\ n_subrows > 0
    /\ n_subcols > 0
    /\ prev' = [status |-> status, a |-> a, b |-> b, subrows |-> subrows,
                subcols |-> subcols, cost |-> cost, nr |-> nr_arg, nc |-> nc_arg]
    /\ nr_arg' = n_subrows
    /\ nc_arg' = n_subcols
    /\ cost' = [k \in 0..(n_subrows * n_subcols - 1) |->
                   cost[subrows[k \div n_subcols] * nc_arg + subcols[k % n_subcols]]]
    /\ subrows' = nullptr
    /\ n_subrows' = 0
    /\ subcols' = nullptr
    /\ n_subcols' = 0
    /\ pc' = "call"
    /\ status' = NoStatus
    /\ a' = nullptr
    /\ b' = nullptr
    /\ UNCHANGED <<dtype, maximize, view, duals, match, search, curRow>>

NextSub == Next \/ Materialize

SpecSub == InitSub /\ [][NextSub]_vars

\* The call on a matrix of an integer kind, without selectors.
InitInt ==
    /\ dtype \in IntKinds
    /\ nr_arg \in 1..SubDim
    /\ nc_arg \in 1..SubDim
    /\ maximize \in BOOLEAN
    /\ cost \in [0..(nr_arg * nc_arg - 1) -> {Fin(n) : n \in KindValues(dtype)}]
    /\ NoSubscripts
    /\ Idle

SpecInt == InitInt /\ [][Next]_vars

(* --------------------------- what the claims use ----------------------- *)

\* The entry C[r, c] of the matrix given to the call.
Entry(r, c) == cost[r * nc_arg + c]

Min(x, y) == IF x < y THEN x ELSE y

RECURSIVE SumTo(_, _)
\* f[0] + ... + f[n-1]
SumTo(f, n) == IF n = 0 THEN 0 ELSE f[n - 1] + SumTo(f, n - 1)

Injective(f) == \A x, y \in DOMAIN f : x # y => f[x] # f[y]

AllFinite == \A k \in DOMAIN cost : IsFin(cost[k])

Returned(s) == pc = "done" /\ status = s

\* The sum of C[a[k], b[k]] over the pairs written.
ReportedSum == SumTo([k \in DOMAIN a |-> Entry(a[k], b[k])[2]], Cardinality(DOMAIN a))

\* The sums of all assignments of min(nr, nc) rows to distinct columns.
AssignmentSums ==
    IF nr_arg <= nc_arg
    THEN {SumTo([r \in 0..(nr_arg - 1) |-> Entry(r, f[r])[2]], nr_arg) :
             f \in {g \in [0..(nr_arg - 1) -> 0..(nc_arg - 1)] : Injective(g)}}
    ELSE {SumTo([c \in 0..(nc_arg - 1) |-> Entry(f[c], c)[2]], nc_arg) :
             f \in {g \in [0..(nc_arg - 1) -> 0..(nr_arg - 1)] : Injective(g)}}

\* C1: when solve returns 0 on a matrix of finite integer entries, without
\* subscripts, the sum of C[a[k], b[k]] over the reported pairs is at most
\* the sum of every assignment of min(nr, nc) rows to distinct columns when
\* minimizing, and at least that sum when maximizing.
C1_Optimal ==
    (Returned(RETURN_OK) /\ AllFinite) =>
        \A s \in AssignmentSums :
            IF maximize THEN ReportedSum >= s ELSE ReportedSum <= s

\* A 3 x 3 minimization whose optimum is not the diagonal and not the
\* row-wise greedy choice, and in which the search rerouted a matched row.
C1_Witness ==
    /\ Returned(RETURN_OK)
    /\ AllFinite
    /\ ~maximize
    /\ nr_arg = 3
    /\ nc_arg = 3
    /\ \E s \in AssignmentSums : s > ReportedSum
    /\ \E k \in DOMAIN b : b[k] # k
    /\ \E k \in DOMAIN u : u[k] # Fin(0)

\* C2: a call without subscripts that returns 0 writes exactly min(nr, nc)
\* pairs; a is strictly ascending with values in [0, nr), equal to 0..nr-1
\* when nr <= nc; the values of b are pairwise distinct and in [0, nc).
C2_OutputShape ==
    Returned(RETURN_OK) =>
        /\ DOMAIN a = 0..(Min(nr_arg, nc_arg) - 1)
        /\ DOMAIN b = 0..(Min(nr_arg, nc_arg) - 1)
        /\ \A k \in DOMAIN a : a[k] \in 0..(nr_arg - 1)
        /\ \A k \in DOMAIN a : k + 1 \in DOMAIN a => a[k] < a[k + 1]
        /\ nr_arg <= nc_arg => \A k \in DOMAIN a : a[k] = k
        /\ \A k \in DOMAIN b : b[k] \in 0..(nc_arg - 1)
        /\ Injective(b)

\* A tall matrix solved through the transpose, whose argsort is not the
\* identity and which leaves a row in the middle unassigned.
C2_Witness ==
    /\ Returned(RETURN_OK)
    /\ nr_arg = 3
    /\ nc_arg = 2
    /\ m_transpose
    /\ a[0] = 0 /\ a[1] = 2
    /\ b[0] = 1 /\ b[1] = 0

DLe(x, y) == DLt(x, y) \/ DEq(x, y)

\* C10: after every completed pass curRow of the main loop the duals are
\* feasible on the rows processed so far, u[x] + v[y] <= C_view(x, y) for
\* every column y, and tight on their matched pairs.  curRow counts the
\* completed passes.
C10_DualFeasibleTight ==
    \A x \in 0..(curRow - 1) :
        /\ \A y \in 0..(nc - 1) : DLe(DAdd(u[x], v[y]), get(x, y))
        /\ col4row[x] # -1 => DEq(DAdd(u[x], v[col4row[x]]), get(x, col4row[x]))

\* All three passes of a 3 x 3 problem are completed, with an infinite
\* entry, after a search that lowered a column's dual.
C10_Witness ==
    /\ pc = "output"
    /\ curRow = 3
    /\ \E k \in DOMAIN cost : ~IsFin(cost[k])
    /\ \E y \in DOMAIN v : v[y] # Fin(0)
    /\ \E x \in DOMAIN u : u[x] # Fin(0)

\* The positions of remaining that hold a column of the lowest cost.
Tied == {it \in 0..(num_remaining - 1) :
            \A ot \in 0..(num_remaining - 1) :
                ~DLt(shortestPathCosts[remaining[ot]], shortestPathCosts[remaining[it]])}
TiedUnmatched == {it \in Tied : row4col[remaining[it]] = -1}
\* The tied positions left after the preference for an unmatched column.
Candidates == IF TiedUnmatched # {} THEN TiedUnmatched ELSE Tied

\* A selection is made in the state: the scan is over and found a finite cost.
Selecting == pc = "select" /\ ~DEq(lowest, INFINITY)

\* C9 as stated: the selected column has the lowest cost of remaining, is
\* unmatched if an unmatched column ties for it, and is the candidate at the
\* lowest position of the scan.
C9_FirstCandidate ==
    Selecting =>
        /\ index \in Candidates
        /\ \A it \in Candidates : index <= it

\* C9, amended: the selected column has the lowest cost of remaining and is
\* unmatched if an unmatched column ties for it; among tied unmatched
\* columns it is the one at the highest position of the scan, among tied
\* columns that are all matched the one at the lowest position.
C9_LastUnmatchedFirstMatched ==
    Selecting =>
        /\ index \in Candidates
        /\ lowest = shortestPathCosts[remaining[index]]
        /\ IF TiedUnmatched # {}
           THEN \A it \in Candidates : it <= index
           ELSE \A it \in Candidates : index <= it

\* Two unmatched columns tie with a matched one that the scan meets first.
C9_Witness ==
    /\ Selecting
    /\ Cardinality(TiedUnmatched) >= 2
    /\ Cardinality(Tied) > Cardinality(TiedUnmatched)
    /\ \E it \in Tied \ TiedUnmatched : \A ot \in TiedUnmatched : it < ot

\* Whether row r of the matrix is all +infinity.
InfiniteRow(r) == \A c \in 0..(nc_arg - 1) : Entry(r, c) = INFINITY

\* C6 as stated: minimizing without subscripts, a matrix of any shape with an
\* all +infinity row, and no NaN or -infinity, makes solve return INFEASIBLE.
C6_InfiniteRowAnyShape ==
    (pc = "done" /\ ~maximize /\ \E r \in 0..(nr_arg - 1) : InfiniteRow(r)) =>
        status = RECTANGULAR_LSAP_INFEASIBLE

\* C6, amended: the same for the matrices with nr <= nc.
C6_InfiniteRowWide ==
    (pc = "done" /\ ~maximize /\ nr_arg <= nc_arg
        /\ \E r \in 0..(nr_arg - 1) : InfiniteRow(r)) =>
        status = RECTANGULAR_LSAP_INFEASIBLE

\* The all +infinity row is met after two passes that succeeded.
C6_Witness ==
    /\ Returned(RECTANGULAR_LSAP_INFEASIBLE)
    /\ ~maximize
    /\ nr_arg = 3
    /\ nc_arg = 3
    /\ InfiniteRow(2)
    /\ curRow = 2

Identity(n) == [k \in 0..(n - 1) |-> k]

\* C8: the n x n matrix with all entries equal, minimizing or maximizing,
\* without subscripts, returns 0 with the identity assignment a[k] = k,
\* b[k] = k for k in 0..n-1.
C8_ConstantIdentity ==
    (pc = "done" /\ nr_arg = nc_arg
        /\ \A k \in DOMAIN cost : cost[k] = cost[0] /\ IsFin(cost[k])) =>
        /\ status = RETURN_OK
        /\ a = Identity(nr_arg)
        /\ b = Identity(nr_arg)

\* The largest matrix, of a negative constant, maximizing.
C8_Witness ==
    /\ Returned(RETURN_OK)
    /\ nr_arg = ConstDim
    /\ maximize
    /\ cost[0] = Fin(-ConstVal)
    /\ b = Identity(ConstDim)

\* Whether the matrix holds a NaN, a -infinity when minimizing or a
\* +infinity when maximizing.
HasIllEntry ==
    \E k \in DOMAIN cost :
        \/ cost[k] = NaN
        \/ (cost[k] = NegInfinity /\ ~maximize)
        \/ (cost[k] = INFINITY /\ maximize)

\* Whether a selector has a negative length or an index out of bounds.
HasIllSubscript ==
    \/ n_subrows < 0
    \/ n_subcols < 0
    \/ \E k \in 0..(n_subrows - 1) : subrows[k] \notin 0..(nr_arg - 1)
    \/ \E k \in 0..(n_subcols - 1) : subcols[k] \notin 0..(nc_arg - 1)

\* C7: with a supported dtype the first failing check decides the status:
\* an empty axis returns 0 whatever the selectors; otherwise an ill entry
\* anywhere in the matrix returns INVALID whatever the selectors; otherwise
\* an ill selector returns SUBSCRIPT_INVALID; otherwise neither is returned.
C7_CheckOrder ==
    (pc = "done" /\ dtype \in SupportedKinds) =>
        IF nr_arg = 0 \/ nc_arg = 0 THEN status = RETURN_OK
        ELSE IF HasIllEntry THEN status = RECTANGULAR_LSAP_INVALID
        ELSE IF HasIllSubscript THEN status = RECTANGULAR_LSAP_SUBSCRIPT_INVALID
        ELSE status \notin {RECTANGULAR_LSAP_INVALID, RECTANGULAR_LSAP_SUBSCRIPT_INVALID}

\* INVALID is returned for a NaN in a row that the row selector does not
\* select, while the column selector holds an index out of bounds.
C7_Witness ==
    /\ Returned(RECTANGULAR_LSAP_INVALID)
    /\ nr_arg = 2
    /\ n_subrows > 0
    /\ \A k \in 0..(n_subrows - 1) : subrows[k] = 0
    /\ cost[nc_arg] = NaN
    /\ n_subcols = 2
    /\ subcols[1] = nc_arg

\* Whether the call is the first one, with its selectors.
FirstCall == prev = nullptr

\* C3 as stated: a selector of length zero leaves its axis whole while the
\* other axis is selected: with n_subrows > 0 and n_subcols = 0 the working
\* shape is (n_subrows, nc) up to the transpose and min(n_subrows, nc) pairs
\* are reported; with n_subrows = 0 and n_subcols > 0 the working shape is
\* (nr, n_subcols) and min(nr, n_subcols) pairs are reported.
C3_ZeroLengthKeepsAxis ==
    (Returned(RETURN_OK) /\ FirstCall) =>
        /\ (n_subrows > 0 /\ n_subcols = 0) =>
              /\ nr = Min(n_subrows, nc_arg)
              /\ DOMAIN a = 0..(Min(n_subrows, nc_arg) - 1)
        /\ (n_subrows = 0 /\ n_subcols > 0) =>
              /\ nr = Min(nr_arg, n_subcols)
              /\ DOMAIN a = 0..(Min(nr_arg, n_subcols) - 1)

\* Whether the first call's matrix held an ill entry outside the selected
\* rows and columns.
IllOutsideSelection ==
    \E r \in 0..(prev.nr - 1), c \in 0..(prev.nc - 1) :
        /\ \/ \A k \in DOMAIN prev.subrows : prev.subrows[k] # r
           \/ \A k \in DOMAIN prev.subcols : prev.subcols[k] # c
        /\ LET x == prev.cost[r * prev.nc + c]
           IN  x = NaN \/ (x = NegInfinity /\ ~maximize) \/ (x = INFINITY /\ maximize)

\* The second call's result agrees with the first's: the same status, and
\* the first call's pairs are the second's mapped through the selectors.
SameAsMaterialized ==
    /\ prev.status = status
    /\ DOMAIN prev.a = DOMAIN a
    /\ DOMAIN prev.b = DOMAIN b
    /\ \A k \in DOMAIN a : prev.a[k] = prev.subrows[a[k]]
    /\ \A k \in DOMAIN b : prev.b[k] = prev.subcols[b[k]]

\* C4 as stated: for all non-empty selectors P and Q in bounds, the call
\* with them returns the status and the pairs of the call on the matrix
\* M[x][y] = C[P[x]][Q[y]] without selectors, mapped through P and Q.
C4_SubscriptIsMaterialized ==
    (pc = "done" /\ ~FirstCall) => SameAsMaterialized

\* C4, amended: the same provided C holds no NaN and no ill-signed infinity
\* outside the selected rows and columns.
C4_SubscriptIsMaterializedValid ==
    (pc = "done" /\ ~FirstCall /\ ~IllOutsideSelection) => SameAsMaterialized

\* Both calls went through the transpose, the row selector reverses the rows
\* and the column selector takes the second column: the pair (1, 0) of the
\* second call is the pair (0, 1) of the first.
C4_Witness ==
    /\ Returned(RETURN_OK)
    /\ ~FirstCall
    /\ prev.status = RETURN_OK
    /\ m_transpose
    /\ nr_arg = 2
    /\ nc_arg = 1
    /\ prev.subrows[0] = 1
    /\ prev.subrows[1] = 0
    /\ prev.subcols[0] = 1
    /\ a[0] = 1
    /\ b[0] = 0
    /\ prev.a[0] = 0
    /\ prev.b[0] = 1

\* C5 as stated: for the integer kinds the view with Negate returns the
\* exact negation of the stored element, and so the call that maximizes
\* returns an assignment of the largest sum.
C5_ExactNegation ==
    (dtype \in IntKinds /\ maximize) =>
        /\ pc \in {"scan", "select", "update", "output"} =>
              \A x \in 0..(nr - 1), y \in 0..(nc - 1) :
                  get(x, y) = Fin(-(IF m_transpose THEN Entry(y, x) ELSE Entry(x, y))[2])
        /\ Returned(RETURN_OK) => \A s \in AssignmentSums : ReportedSum >= s

====
